---- MODULE Spec2Model ----
(***************************************************************************)
(* fasthash: the Spooky stateful hashers (spooky.rs) and the Farm buffered *)
(* hashers and one-shot functions (farm.rs).                               *)
(*                                                                         *)
(* Machine words are kept at full width as big-endian sequences of 16-bit  *)
(* limbs: a u32 is 2 limbs, a u64 is 4 limbs, a u128 is 8 limbs (the high  *)
(* u64 first).  Byte strings are sequences of byte values.                 *)
(***************************************************************************)
EXTENDS Integers, Sequences, FiniteSets, TLC

\* The largest number of write calls outstanding on the live hashers.
MaxWrites == 2

\* The hasher variables the client program holds.
Slots == {"a", "b"}

\* The addresses the native allocator hands out.
Addrs == {1, 2}

\* ------------------------------------------------------------------ words

LimbBase == 2 ^ 16

\* The u64 with value n, for 0 <= n < 2^16.
U64(n) == <<0, 0, 0, n>>

\* The u32 with value n, for 0 <= n < 2^16.
U32(n) == <<0, n>>

\* extprim u128::from_parts(hi, lo)
from_parts(hi, lo) == hi \o lo

\* extprim u128::new(lo): the high half is zero
u128_new(lo) == from_parts(U64(0), lo)

\* extprim u128::high64
high64(x) == SubSeq(x, 1, 4)

\* extprim u128::low64
low64(x) == SubSeq(x, 5, 8)

\* Mutant: the widening extends the sign bit (as for an i32).
u32_as_u64_signed(x) ==
    IF x[1] >= LimbBase \div 2 THEN <<LimbBase - 1, LimbBase - 1>> \o x
    ELSE <<0, 0>> \o x

\* `x as u64` for a u32 x: zero extension
u32_as_u64(x) == <<0, 0>> \o x

\* `x as u32` for a u64 x: the low 32 bits
u64_as_u32(x) == SubSeq(x, 3, 4)

\* ------------------------------------------------------------------ bytes

Hello == <<104, 101, 108, 108, 111>>
World == <<119, 111, 114, 108, 100>>
HelloWorld == Hello \o World
HelloWord == Hello \o <<32, 119, 111, 114, 100>>

\* The byte slices a write call or a one-shot call is given.
Chunks == {<<>>, Hello, World}

\* The seeds a caller passes.
Seeds32 == {U32(0), U32(123), <<1, 123>>}
Seeds64 == {U64(0), U64(123), <<1, 0, 0, 123>>}
Seeds128 == {u128_new(U64(0)), u128_new(U64(123)), from_parts(U64(123), U64(0))}

\* The byte strings the one-shot functions are called on.
Inputs == {<<>>, Hello, World, HelloWorld, HelloWord}

\* What a read of freed or uninitialised native memory may yield.
Garbage == {U64(0), U64(57005)}

\* ---------------------------------------------------- the native primitives
\* The mixing arithmetic is outside the crate.  Where the crate's tests fix
\* the value of a native call the model uses that value; elsewhere a
\* stand-in that depends on every byte and on both seed words.

RECURSIVE Fold(_, _)
Fold(msg, a) ==
    IF msg = <<>> THEN a
    ELSE Fold(Tail(msg), (a * 31 + Head(msg) + 1) % LimbBase)

StandIn(msg, s1, s2, salt) ==
    [k \in 1..4 |-> Fold(msg, (s1[k] + 3 * s2[k] + 7 * k + salt) % LimbBase)]

\* SpookyHash::Hash128 on a short message: hash1/hash2 go in as the seed
\* words and come out as the two result words.
SpookyHasherHash(msg, hash1, hash2) ==
    CASE msg = Hello /\ hash1 = U64(0) /\ hash2 = U64(0) ->
            << <<21692, 46508, 59620, 12224>>, <<58325, 19851, 50919, 62253>> >>
      [] msg = HelloWorld /\ hash1 = U64(0) /\ hash2 = U64(0) ->
            << <<65415, 57896, 59113, 47896>>, <<49324, 62101, 58254, 28109>> >>
      [] msg = Hello /\ hash1 = U64(0) /\ hash2 = U64(123) ->
            << <<25801, 30397, 64377, 21088>>, <<53400, 39202, 25970, 39687>> >>
      [] msg = Hello /\ hash1 = U64(123) /\ hash2 = U64(123) ->
            << <<31331, 45252, 33749, 61508>>, StandIn(msg, hash1, hash2, 2) >>
      [] OTHER ->
            << StandIn(msg, hash1, hash2, 1), StandIn(msg, hash1, hash2, 2) >>

\* A native SpookyHash object that is not allocated.
NoState == [alloc |-> FALSE, init |-> FALSE, m_state |-> <<>>, m_data |-> <<>>,
            m_length |-> 0, nfree |-> 0, bad |-> FALSE, ninit |-> 0,
            early |-> FALSE]

\* new SpookyHash at address p (the allocator chose p): allocated, fields
\* not yet initialised.
SpookyHasherNew(m, p) ==
    [m EXCEPT ![p] = [NoState EXCEPT !.alloc = TRUE]]

\* History kept beside each address: nfree counts the frees of the object
\* allocated there last, bad records a call on memory that is no live
\* object, ninit counts the Init calls on the object, early records an
\* Update or Final on an object before its Init.
Touch(m, p) ==
    IF m[p].alloc THEN [m EXCEPT ![p].early = TRUE]
    ELSE [m EXCEPT ![p].bad = TRUE]

\* SpookyHash::Init(seed1, seed2)
SpookyHasherInit(m, p, seed1, seed2) ==
    IF m[p].alloc
    THEN [m EXCEPT ![p].init = TRUE, ![p].m_state = <<seed1, seed2>>,
                   ![p].m_data = <<>>, ![p].m_length = 0,
                   ![p].ninit = @ + 1]
    ELSE Touch(m, p)

\* SpookyHash::Update(message, length), the short-message path: the bytes
\* are appended to the object's buffer.
SpookyHasherUpdate(m, p, msg) ==
    IF m[p].alloc /\ m[p].init
    THEN [m EXCEPT ![p].m_data = @ \o msg, ![p].m_length = @ + Len(msg)]
    ELSE Touch(m, p)

\* SpookyHash::Final(hash1, hash2), the short-message path: the digest of
\* the buffered bytes under the stored seed words; the object is only read.
\* The set of possible outcomes: one for a live object, and whatever the
\* read yields when the object is freed or uninitialised.
SpookyHasherFinal(m, p) ==
    IF m[p].alloc /\ m[p].init
    THEN {[mem |-> m,
           out |-> SpookyHasherHash(SubSeq(m[p].m_data, 1, m[p].m_length),
                                    m[p].m_state[1], m[p].m_state[2])]}
    ELSE {[mem |-> Touch(m, p), out |-> <<g1, g2>>] : g1 \in Garbage, g2 \in Garbage}

\* delete state
SpookyHasherFree(m, p) ==
    [m EXCEPT ![p] = [NoState EXCEPT !.nfree = m[p].nfree + 1,
                                     !.bad = m[p].bad \/ ~m[p].alloc]]

\* The farmhash entry points, by the same rule: the values the tests of
\* farm.rs fix, a stand-in elsewhere.  A 128-bit value crosses the boundary
\* as uint128_c_t, a pair of words: a the low one, b the high one.
Pair(lo, hi) == [a |-> lo, b |-> hi]

farmhash32(msg) == SubSeq(StandIn(msg, U64(0), U64(0), 10), 3, 4)

farmhash32_with_seed(msg, seed) ==
    SubSeq(StandIn(msg, u32_as_u64(seed), U64(0), 11), 3, 4)

farmhash64(msg) ==
    CASE msg = Hello -> <<51171, 56845, 1161, 17930>>
      [] msg = HelloWorld -> <<3828, 58610, 44970, 3666>>
      [] OTHER -> StandIn(msg, U64(0), U64(0), 12)

farmhash64_with_seeds(msg, seed0, seed1) ==
    CASE msg = Hello /\ seed0 = U64(123) /\ seed1 = U64(456) ->
            <<53566, 52324, 2782, 29527>>
      [] OTHER -> StandIn(msg, seed0, seed1, 13)

farmhash64_with_seed(msg, seed) ==
    CASE msg = Hello /\ seed = U64(123) -> <<24360, 2018, 1672, 9418>>
      [] OTHER -> StandIn(msg, seed, U64(0), 14)

farmhash128(msg) ==
    CASE msg = Hello ->
            Pair(<<56446, 61598, 23631, 52798>>, <<51676, 40663, 24106, 51064>>)
      [] msg = HelloWorld ->
            Pair(<<3977, 6872, 35730, 18497>>, <<57080, 15606, 35511, 55158>>)
      [] OTHER ->
            Pair(StandIn(msg, U64(0), U64(0), 15), StandIn(msg, U64(0), U64(0), 16))

farmhash128_with_seed(msg, seed) ==
    CASE msg = Hello /\ seed = Pair(U64(123), U64(0)) ->
            Pair(<<47323, 34979, 43031, 10795>>, <<54047, 5383, 20006, 10638>>)
      [] OTHER ->
            Pair(StandIn(msg, seed.a, seed.b, 17), StandIn(msg, seed.a, seed.b, 18))

farmhash_fingerprint32(msg) ==
    CASE msg = HelloWord -> <<63263, 26922>>
      [] OTHER -> SubSeq(StandIn(msg, U64(0), U64(0), 19), 3, 4)

farmhash_fingerprint64(msg) ==
    CASE msg = HelloWord -> <<10170, 42861, 41332, 33262>>
      [] OTHER -> StandIn(msg, U64(0), U64(0), 20)

farmhash_fingerprint_uint64(x) ==
    CASE x = U64(123) -> <<16986, 30662, 63553, 60664>>
      [] OTHER -> StandIn(<<>>, x, U64(0), 23)

farmhash_fingerprint_uint128(x) ==
    CASE x = Pair(U64(123), U64(0)) -> <<14251, 64575, 11672, 44261>>
      [] OTHER -> StandIn(<<>>, x.a, x.b, 24)

farmhash_fingerprint128(msg) ==
    CASE msg = HelloWord ->
            Pair(<<44246, 10788, 49678, 46264>>, <<14189, 29591, 20111, 52318>>)
      [] OTHER ->
            Pair(StandIn(msg, U64(0), U64(0), 21), StandIn(msg, U64(0), U64(0), 22))

\* ------------------------------------------------- spooky.rs: one-shot

\* FastHash::hash: hash_with_seed with the default (zero) seed.
DefaultSeed32 == U32(0)
DefaultSeed64 == U64(0)
DefaultSeed128 == u128_new(U64(0))

\* Mutant: the result is the upper half of the first result word.
SpookyHash32_hash_with_seed_upper(bytes, seed) ==
    LET r == SpookyHasherHash(bytes, u32_as_u64(seed), u32_as_u64(seed))
    IN  SubSeq(r[1], 1, 2)

SpookyHash32_hash_with_seed(bytes, seed) ==
    LET r == SpookyHasherHash(bytes, u32_as_u64(seed), u32_as_u64(seed))
    IN  u64_as_u32(r[1])

SpookyHash64_hash_with_seed(bytes, seed) ==
    LET r == SpookyHasherHash(bytes, seed, seed)
    IN  r[1]

\* Mutant: the two result words are assembled in the other order.
SpookyHash128_hash_with_seed_swapped(bytes, seed) ==
    LET r == SpookyHasherHash(bytes, high64(seed), low64(seed))
    IN  from_parts(r[2], r[1])

SpookyHash128_hash_with_seed(bytes, seed) ==
    LET r == SpookyHasherHash(bytes, high64(seed), low64(seed))
    IN  from_parts(r[1], r[2])

SpookyHash32_hash(bytes) == SpookyHash32_hash_with_seed(bytes, DefaultSeed32)
SpookyHash64_hash(bytes) == SpookyHash64_hash_with_seed(bytes, DefaultSeed64)
SpookyHash128_hash(bytes) == SpookyHash128_hash_with_seed(bytes, DefaultSeed128)

\* ------------------------------------------- spooky.rs: SpookyHasher
\* Each method is given the native memory m and the handle self.0 and
\* yields the memory after its native calls; finish yields the set of its
\* possible outcomes (memory after, value returned).

\* Mutant: one native object, at a fixed address, serves every hasher.
SpookyHasher_with_seed_shared(m, h, seed) ==
    LET g == CHOOSE p \in Addrs : \A q \in Addrs : p <= q
    IN  [mem |-> SpookyHasherInit(SpookyHasherNew(m, g), g, seed, seed), self |-> g]

\* Mutant: the native object is allocated and never initialised.
SpookyHasher_with_seed_uninit(m, h, seed) ==
    [mem |-> SpookyHasherNew(m, h), self |-> h]

\* h is the address SpookyHasherNew returns.
SpookyHasher_with_seed(m, h, seed) ==
    [mem |-> SpookyHasherInit(SpookyHasherNew(m, h), h, seed, seed), self |-> h]

\* Mutant: new() builds with a seed other than zero.
SpookyHasher_new_seed1(m, h) == SpookyHasher_with_seed(m, h, U64(1))

SpookyHasher_new(m, h) == SpookyHasher_with_seed(m, h, U64(0))

\* Mutant: drop forgets to free the native object.
SpookyHasher_drop_leak(m, self) == m

SpookyHasher_drop(m, self) == SpookyHasherFree(m, self)

\* Mutant: finish re-initialises the native object after reading it.
SpookyHasher_finish_consuming(m, self) ==
    {LET hash1 == f.out[1]
     IN  [mem |-> SpookyHasherInit(f.mem, self, U64(0), U64(0)), val |-> hash1] :
        f \in SpookyHasherFinal(m, self)}

\* Mutant: finish returns the second result word.
SpookyHasher_finish_second(m, self) ==
    {LET hash2 == f.out[2]
     IN  [mem |-> f.mem, val |-> hash2] : f \in SpookyHasherFinal(m, self)}

SpookyHasher_finish(m, self) ==
    {LET hash1 == f.out[1]
     IN  [mem |-> f.mem, val |-> hash1] : f \in SpookyHasherFinal(m, self)}

\* Mutant: every write restarts the stream before it appends.
SpookyHasher_write_restart(m, self, bytes) ==
    SpookyHasherUpdate(
        SpookyHasherInit(m, self, m[self].m_state[1], m[self].m_state[2]),
        self, bytes)

SpookyHasher_write(m, self, bytes) == SpookyHasherUpdate(m, self, bytes)

\* ------------------------------------------ spooky.rs: SpookyHasherExt

\* Mutant: the halves of the seed are passed in the other order.
SpookyHasherExt_with_seed_swapped(m, h, seed) ==
    [mem |-> SpookyHasherInit(SpookyHasherNew(m, h), h, low64(seed), high64(seed)),
     self |-> h]

SpookyHasherExt_with_seed(m, h, seed) ==
    [mem |-> SpookyHasherInit(SpookyHasherNew(m, h), h, high64(seed), low64(seed)),
     self |-> h]

SpookyHasherExt_new(m, h) == SpookyHasherExt_with_seed(m, h, u128_new(U64(0)))

SpookyHasherExt_drop(m, self) == SpookyHasherFree(m, self)

\* Mutant: finish_ext frees the native object once it has the digest.
SpookyHasherExt_finish_ext_freeing(m, self) ==
    {LET hash1 == f.out[1]
         hash2 == f.out[2]
     IN  [mem |-> SpookyHasherFree(f.mem, self), val |-> from_parts(hash1, hash2)] :
        f \in SpookyHasherFinal(m, self)}

SpookyHasherExt_finish_ext(m, self) ==
    {LET hash1 == f.out[1]
         hash2 == f.out[2]
     IN  [mem |-> f.mem, val |-> from_parts(hash1, hash2)] :
        f \in SpookyHasherFinal(m, self)}

\* Mutant: finish returns the high half.
SpookyHasherExt_finish_high(m, self) ==
    {[mem |-> e.mem, val |-> high64(e.val)] : e \in SpookyHasherExt_finish_ext(m, self)}

SpookyHasherExt_finish(m, self) ==
    {[mem |-> e.mem, val |-> low64(e.val)] : e \in SpookyHasherExt_finish_ext(m, self)}

\* Mutant: every write restarts the stream before it appends.
SpookyHasherExt_write_restart(m, self, bytes) ==
    SpookyHasherUpdate(
        SpookyHasherInit(m, self, m[self].m_state[1], m[self].m_state[2]),
        self, bytes)

SpookyHasherExt_write(m, self, bytes) == SpookyHasherUpdate(m, self, bytes)

\* ---------------------------------------------------- farm.rs: one-shot

\* mem::transmute between uint128_c_t {a, b} and extprim's u128 {lo, hi}
\* (little-endian field order): a is the low half, b the high half.
transmute_to_u128(c) == from_parts(c.b, c.a)
transmute_to_c(x) == Pair(low64(x), high64(x))

FarmHash32_hash(bytes) == farmhash32(bytes)
FarmHash32_hash_with_seed(bytes, seed) == farmhash32_with_seed(bytes, seed)

\* Mutant: hash is routed through the seeded entry point with seed 0.
FarmHash64_hash_seeded(bytes) == farmhash64_with_seed(bytes, U64(0))

FarmHash64_hash(bytes) == farmhash64(bytes)
FarmHash64_hash_with_seed(bytes, seed) == farmhash64_with_seed(bytes, seed)
FarmHash64_hash_with_seeds(bytes, seed0, seed1) ==
    farmhash64_with_seeds(bytes, seed0, seed1)

FarmHash128_hash(bytes) == transmute_to_u128(farmhash128(bytes))
FarmHash128_hash_with_seed(bytes, seed) ==
    transmute_to_u128(farmhash128_with_seed(bytes, transmute_to_c(seed)))

fingerprint32(v) == farmhash_fingerprint32(v)

\* Mutant: the fingerprint is taken from the hash primitive.
fingerprint64_by_hash(v) == farmhash64(v)

fingerprint64(v) == farmhash_fingerprint64(v)
fingerprint128(v) == transmute_to_u128(farmhash_fingerprint128(v))

\* Fingerprint<u64> for u64 and for u128
u64_fingerprint(self) == farmhash_fingerprint_uint64(self)
u128_fingerprint(self) == farmhash_fingerprint_uint128(transmute_to_c(self))

\* ------------------------------- farm.rs: the buffered hashers
\* impl_hasher!/impl_hasher_ext! wrap a one-shot FastHash in a hasher that
\* keeps every byte written: write appends to the buffer, finish hashes
\* the whole buffer and leaves it as it is.  A hasher built with new() has
\* no seed and calls hash.

NoBuffer == [kind |-> "none", bytes |-> <<>>]

FarmHasher_new(kind) == [kind |-> kind, bytes |-> <<>>]

FarmHasher_write(self, bytes) == [self EXCEPT !.bytes = @ \o bytes]

\* FarmHasher32::finish: the u32 hash, widened `as u64`.
FarmHasher32_finish(self) == u32_as_u64(FarmHash32_hash(self.bytes))

FarmHasher64_finish(self) == FarmHash64_hash(self.bytes)

FarmHasher128_finish_ext(self) == FarmHash128_hash(self.bytes)

\* ------------------------------------------------------------ the state

VARIABLES
    mem,      \* native heap: address -> SpookyHash object (with its history)
    hashers,  \* slot -> the hasher value bound there: its type and self.0
    hist,     \* slot -> how the hasher was built and every byte written to it
    ret,      \* the last call: operation, slot, argument, returned value,
              \* and whether a finish follows a finish on the same hasher
    farm,     \* slot -> the buffered Farm hasher bound there
    pure,     \* the last one-shot call: function, bytes, seed, value
    calls,    \* thread -> the one-shot call it is in, and where in its body
    stack     \* call frame -> the locals hash1 and hash2 kept there

vars == <<mem, hashers, hist, ret, farm, pure, calls, stack>>

Threads == {"t1", "t2"}
NoCall == [pc |-> "idle", fn |-> "none", bytes |-> <<>>, seed |-> <<>>,
           val |-> <<>>]
NoFrame == <<>>

Unbound == [kind |-> "none", ptr |-> 0]
NoHist == [ctor |-> "none", seed |-> <<>>, written |-> <<>>, nwrites |-> 0]
Call(op, i, arg, val) ==
    [op |-> op, slot |-> i, arg |-> arg, val |-> val, again |-> FALSE]
Finishes == {"finish", "finish_ext"}

Init ==
    /\ mem = [p \in Addrs |-> NoState]
    /\ hashers = [i \in Slots |-> Unbound]
    /\ hist = [i \in Slots |-> NoHist]
    /\ ret = Call("none", "a", <<>>, <<>>)
    /\ farm = [i \in Slots |-> NoBuffer]
    /\ pure = [fn |-> "none", bytes |-> <<>>, seed |-> <<>>, val |-> <<>>]
    /\ calls = [t \in Threads |-> NoCall]
    /\ stack = [t \in Threads |-> NoFrame]

\* The addresses the allocator may return: those holding no live object.
FreeAddrs == {p \in Addrs : ~mem[p].alloc}

Is(i, kind) == hashers[i].kind = kind

Bind(i, kind, r, ctor, seed) ==
    /\ mem' = r.mem
    /\ hashers' = [hashers EXCEPT ![i] = [kind |-> kind, ptr |-> r.self]]
    /\ hist' = [hist EXCEPT ![i] = [ctor |-> ctor, seed |-> seed,
                                    written |-> <<>>, nwrites |-> 0]]
    /\ ret' = Call(ctor, i, seed, <<>>)
    /\ UNCHANGED <<farm, pure, calls, stack>>

\* let h = SpookyHasher::new();
New64(i) ==
    /\ Is(i, "none")
    /\ \E h \in FreeAddrs :
          Bind(i, "SpookyHasher", SpookyHasher_new(mem, h), "new", U64(0))

\* let h = SpookyHasher::with_seed(seed);
WithSeed64(i) ==
    /\ Is(i, "none")
    /\ \E h \in FreeAddrs, seed \in Seeds64 :
          Bind(i, "SpookyHasher", SpookyHasher_with_seed(mem, h, seed),
               "with_seed", seed)

\* let h = SpookyHasherExt::new();
NewExt(i) ==
    /\ Is(i, "none")
    /\ \E h \in FreeAddrs :
          Bind(i, "SpookyHasherExt", SpookyHasherExt_new(mem, h), "new",
               u128_new(U64(0)))

\* let h = SpookyHasherExt::with_seed(seed);
WithSeedExt(i) ==
    /\ Is(i, "none")
    /\ \E h \in FreeAddrs, seed \in Seeds128 :
          Bind(i, "SpookyHasherExt", SpookyHasherExt_with_seed(mem, h, seed),
               "with_seed", seed)

RECURSIVE SumWrites(_)
SumWrites(S) ==
    IF S = {} THEN 0
    ELSE LET i == CHOOSE x \in S : TRUE
         IN  hist[i].nwrites + SumWrites(S \ {i})

TotalWrites == SumWrites(Slots)

Wrote(i, m, bytes) ==
    /\ mem' = m
    /\ hist' = [hist EXCEPT ![i].written = @ \o bytes, ![i].nwrites = @ + 1]
    /\ ret' = Call("write", i, bytes, <<>>)
    /\ UNCHANGED <<hashers, farm, pure, calls, stack>>

\* h.write(bytes) on a SpookyHasher
Write64(i) ==
    /\ Is(i, "SpookyHasher")
    /\ TotalWrites < MaxWrites
    /\ \E bytes \in Chunks :
          Wrote(i, SpookyHasher_write(mem, hashers[i].ptr, bytes), bytes)

\* h.write(bytes) on a SpookyHasherExt
WriteExt(i) ==
    /\ Is(i, "SpookyHasherExt")
    /\ TotalWrites < MaxWrites
    /\ \E bytes \in Chunks :
          Wrote(i, SpookyHasherExt_write(mem, hashers[i].ptr, bytes), bytes)

Returned(i, op, r) ==
    /\ mem' = r.mem
    /\ ret' = [Call(op, i, <<>>, r.val) EXCEPT
                   !.again = (ret.op \in Finishes /\ ret.slot = i)]
    /\ UNCHANGED <<hashers, hist, farm, pure, calls, stack>>

\* h.finish() on a SpookyHasher
Finish64(i) ==
    /\ Is(i, "SpookyHasher")
    /\ \E r \in SpookyHasher_finish(mem, hashers[i].ptr) :
          Returned(i, "finish", r)

\* h.finish() on a SpookyHasherExt
FinishExtLow(i) ==
    /\ Is(i, "SpookyHasherExt")
    /\ \E r \in SpookyHasherExt_finish(mem, hashers[i].ptr) :
          Returned(i, "finish", r)

\* h.finish_ext() on a SpookyHasherExt
FinishExt(i) ==
    /\ Is(i, "SpookyHasherExt")
    /\ \E r \in SpookyHasherExt_finish_ext(mem, hashers[i].ptr) :
          Returned(i, "finish_ext", r)

\* The ways the owner of a hasher ends; each runs the value's Drop.
Exits == {"scope_end", "early_return", "unwind"}

Dropped(i, m, way) ==
    /\ mem' = m
    /\ hashers' = [hashers EXCEPT ![i] = Unbound]
    /\ hist' = [hist EXCEPT ![i] = NoHist]
    /\ ret' = Call("drop", i, way, <<>>)
    /\ UNCHANGED <<farm, pure, calls, stack>>

Drop64(i) ==
    /\ Is(i, "SpookyHasher")
    /\ \E way \in Exits : Dropped(i, SpookyHasher_drop(mem, hashers[i].ptr), way)

DropExt(i) ==
    /\ Is(i, "SpookyHasherExt")
    /\ \E way \in Exits : Dropped(i, SpookyHasherExt_drop(mem, hashers[i].ptr), way)

Next ==
    \E i \in Slots :
        \/ New64(i)
        \/ WithSeed64(i)
        \/ NewExt(i)
        \/ WithSeedExt(i)
        \/ Write64(i)
        \/ WriteExt(i)
        \/ Finish64(i)
        \/ FinishExtLow(i)
        \/ FinishExt(i)
        \/ Drop64(i)
        \/ DropExt(i)

Spec == Init /\ [][Next]_vars

\* ------------------------------------------- the buffered Farm hashers

IsFarm(i, kind) == farm[i].kind = kind

FarmKinds == {"FarmHasher32", "FarmHasher64", "FarmHasher128"}

\* let h = FarmHasher32::new(); (or FarmHasher64, FarmHasher128)
FarmNew(i) ==
    /\ IsFarm(i, "none")
    /\ \E kind \in FarmKinds :
          farm' = [farm EXCEPT ![i] = FarmHasher_new(kind)]
    /\ hist' = [hist EXCEPT ![i] = [NoHist EXCEPT !.ctor = "new"]]
    /\ ret' = Call("new", i, <<>>, <<>>)
    /\ UNCHANGED <<mem, hashers, pure, calls, stack>>

\* h.write(bytes)
FarmWrite(i) ==
    /\ ~IsFarm(i, "none")
    /\ TotalWrites < MaxWrites
    /\ \E bytes \in Chunks :
          /\ farm' = [farm EXCEPT ![i] = FarmHasher_write(farm[i], bytes)]
          /\ hist' = [hist EXCEPT ![i].written = @ \o bytes, ![i].nwrites = @ + 1]
          /\ ret' = Call("write", i, bytes, <<>>)
    /\ UNCHANGED <<mem, hashers, pure, calls, stack>>

FarmReturned(i, op, val) ==
    /\ ret' = [Call(op, i, <<>>, val) EXCEPT
                   !.again = (ret.op \in Finishes /\ ret.slot = i)]
    /\ UNCHANGED <<mem, hashers, hist, farm, pure, calls, stack>>

\* h.finish() on a FarmHasher32
FarmFinish32(i) ==
    /\ IsFarm(i, "FarmHasher32")
    /\ FarmReturned(i, "finish", FarmHasher32_finish(farm[i]))

\* h.finish() on a FarmHasher64
FarmFinish64(i) ==
    /\ IsFarm(i, "FarmHasher64")
    /\ FarmReturned(i, "finish", FarmHasher64_finish(farm[i]))

\* h.finish_ext() on a FarmHasher128
FarmFinishExt128(i) ==
    /\ IsFarm(i, "FarmHasher128")
    /\ FarmReturned(i, "finish_ext", FarmHasher128_finish_ext(farm[i]))

\* The hasher goes out of scope; its buffer goes with it.
FarmDrop(i) ==
    /\ ~IsFarm(i, "none")
    /\ farm' = [farm EXCEPT ![i] = NoBuffer]
    /\ hist' = [hist EXCEPT ![i] = NoHist]
    /\ ret' = Call("drop", i, "scope_end", <<>>)
    /\ UNCHANGED <<mem, hashers, pure, calls, stack>>

FarmNext ==
    \E i \in Slots :
        \/ FarmNew(i)
        \/ FarmWrite(i)
        \/ FarmFinish32(i)
        \/ FarmFinish64(i)
        \/ FarmFinishExt128(i)
        \/ FarmDrop(i)

FarmSpec == Init /\ [][FarmNext]_vars

\* ------------------------------------------------ the one-shot functions

Returns(fn, bytes, seed, val) ==
    /\ pure' = [fn |-> fn, bytes |-> bytes, seed |-> seed, val |-> val]
    /\ UNCHANGED <<mem, hashers, hist, ret, farm, calls, stack>>

\* spooky.rs: hash32/hash64/hash128 and their _with_seed forms
SpookyOneShot ==
    \E b \in Inputs :
        \/ Returns("SpookyHash32::hash", b, <<>>, SpookyHash32_hash(b))
        \/ Returns("SpookyHash64::hash", b, <<>>, SpookyHash64_hash(b))
        \/ Returns("SpookyHash128::hash", b, <<>>, SpookyHash128_hash(b))
        \/ \E s \in Seeds32 :
              Returns("SpookyHash32::hash_with_seed", b, s,
                      SpookyHash32_hash_with_seed(b, s))
        \/ \E s \in Seeds64 :
              Returns("SpookyHash64::hash_with_seed", b, s,
                      SpookyHash64_hash_with_seed(b, s))
        \/ \E s \in Seeds128 :
              Returns("SpookyHash128::hash_with_seed", b, s,
                      SpookyHash128_hash_with_seed(b, s))

\* farm.rs: hash32/hash64/hash128, their _with_seed forms, hash64_with_seeds
FarmOneShot ==
    \E b \in Inputs :
        \/ Returns("FarmHash32::hash", b, <<>>, FarmHash32_hash(b))
        \/ Returns("FarmHash64::hash", b, <<>>, FarmHash64_hash(b))
        \/ Returns("FarmHash128::hash", b, <<>>, FarmHash128_hash(b))
        \/ \E s \in Seeds32 :
              Returns("FarmHash32::hash_with_seed", b, s,
                      FarmHash32_hash_with_seed(b, s))
        \/ \E s \in Seeds64 :
              Returns("FarmHash64::hash_with_seed", b, s,
                      FarmHash64_hash_with_seed(b, s))
        \/ \E s \in Seeds128 :
              Returns("FarmHash128::hash_with_seed", b, s,
                      FarmHash128_hash_with_seed(b, s))
        \/ \E s0 \in Seeds64, s1 \in {U64(0), U64(456)} :
              Returns("FarmHash64::hash_with_seeds", b, s0 \o s1,
                      FarmHash64_hash_with_seeds(b, s0, s1))

\* farm.rs: fingerprint32/64/128 of bytes, fingerprint of a u64 or a u128
FarmFingerprint ==
    \/ \E b \in Inputs :
          \/ Returns("fingerprint32", b, <<>>, fingerprint32(b))
          \/ Returns("fingerprint64", b, <<>>, fingerprint64(b))
          \/ Returns("fingerprint128", b, <<>>, fingerprint128(b))
    \/ \E x \in Seeds64 :
          Returns("u64::fingerprint", x, <<>>, u64_fingerprint(x))
    \/ \E x \in Seeds128 :
          Returns("u128::fingerprint", x, <<>>, u128_fingerprint(x))

PureNext == SpookyOneShot \/ FarmOneShot \/ FarmFingerprint

PureSpec == Init /\ [][PureNext]_vars

\* ------------------------- one-shot calls on threads, statement by statement

\* Mutant: hash1 and hash2 are statics, one pair for all calls.
ResultSlots_static(t) == "t1"

\* The frame that holds the locals hash1 and hash2 of the call thread t is
\* in: its own (let mut hash1, let mut hash2).
ResultSlots(t) == t

OneShotFns == {"SpookyHash32", "SpookyHash64", "SpookyHash128"}
ThreadInputs == {<<>>, Hello}
ThreadSeeds(fn) ==
    CASE fn = "SpookyHash32" -> {U32(0), U32(123)}
      [] fn = "SpookyHash64" -> {U64(0), U64(123)}
      [] fn = "SpookyHash128" -> {u128_new(U64(123)), from_parts(U64(123), U64(0))}

\* let mut hash1 = ...; let mut hash2 = ...; of hash_with_seed
SeedLocals(fn, seed) ==
    CASE fn = "SpookyHash32" -> <<u32_as_u64(seed), u32_as_u64(seed)>>
      [] fn = "SpookyHash64" -> <<seed, seed>>
      [] fn = "SpookyHash128" -> <<high64(seed), low64(seed)>>

\* the value hash_with_seed returns from its locals
ReturnLocals(fn, frame) ==
    CASE fn = "SpookyHash32" -> u64_as_u32(frame[1])
      [] fn = "SpookyHash64" -> frame[1]
      [] fn = "SpookyHash128" -> from_parts(frame[1], frame[2])

\* Thread t calls fn::hash_with_seed(bytes, seed) and seeds its locals.
Enter(t) ==
    /\ calls[t].pc = "idle"
    /\ \E fn \in OneShotFns, bytes \in ThreadInputs :
          \E seed \in ThreadSeeds(fn) :
              /\ calls' = [calls EXCEPT ![t] =
                     [pc |-> "seeded", fn |-> fn, bytes |-> bytes,
                      seed |-> seed, val |-> <<>>]]
              /\ stack' = [stack EXCEPT ![ResultSlots(t)] = SeedLocals(fn, seed)]
    /\ UNCHANGED <<mem, hashers, hist, ret, farm, pure>>

\* ffi::SpookyHasherHash(bytes, len, &mut hash1, &mut hash2)
Native(t) ==
    /\ calls[t].pc = "seeded"
    /\ LET frame == stack[ResultSlots(t)]
       IN  stack' = [stack EXCEPT ![ResultSlots(t)] =
                        SpookyHasherHash(calls[t].bytes, frame[1], frame[2])]
    /\ calls' = [calls EXCEPT ![t].pc = "hashed"]
    /\ UNCHANGED <<mem, hashers, hist, ret, farm, pure>>

\* The call returns the value built from its locals; its frame is gone.
Return(t) ==
    /\ calls[t].pc = "hashed"
    /\ calls' = [calls EXCEPT ![t].pc = "done",
                              ![t].val = ReturnLocals(calls[t].fn,
                                                      stack[ResultSlots(t)])]
    /\ stack' = [stack EXCEPT ![ResultSlots(t)] = NoFrame]
    /\ UNCHANGED <<mem, hashers, hist, ret, farm, pure>>

\* The thread takes the value and is free for its next call.
Leave(t) ==
    /\ calls[t].pc = "done"
    /\ calls' = [calls EXCEPT ![t] = NoCall]
    /\ UNCHANGED <<mem, hashers, hist, ret, farm, pure, stack>>

\* One-shot calls on two threads, while a third works on a SpookyHasher.
ConcNext ==
    \/ \E t \in Threads : Enter(t) \/ Native(t) \/ Return(t) \/ Leave(t)
    \/ New64("a")
    \/ Write64("a")
    \/ Finish64("a")
    \/ Drop64("a")

ConcSpec == Init /\ [][ConcNext]_vars

\* The owner of every hasher ends: its function returns or unwinds.
FairSpec == Spec /\ \A i \in Slots : WF_vars(Drop64(i) \/ DropExt(i))

Live(i) == hashers[i].kind # "none"
Vals(outcomes) == {r.val : r \in outcomes}

\* ------------------------------------------------------------------ C1
\* C1: a finish call on a SpookyHasher built with seed s (new(): 0) returns
\* SpookyHash64::hash_with_seed of all bytes written so far under s, and
\* finish_ext on a SpookyHasherExt built with s128 returns
\* SpookyHash128::hash_with_seed of them under s128, however many finish
\* calls came in between.
C1_IncrementalEqualsOneShot ==
    \A i \in Slots :
        /\ Is(i, "SpookyHasher") =>
              /\ Vals(SpookyHasher_finish(mem, hashers[i].ptr)) =
                    {SpookyHash64_hash_with_seed(hist[i].written, hist[i].seed)}
              /\ (ret.op = "finish" /\ ret.slot = i) =>
                    ret.val = SpookyHash64_hash_with_seed(hist[i].written, hist[i].seed)
        /\ Is(i, "SpookyHasherExt") =>
              /\ Vals(SpookyHasherExt_finish_ext(mem, hashers[i].ptr)) =
                    {SpookyHash128_hash_with_seed(hist[i].written, hist[i].seed)}
              /\ (ret.op = "finish_ext" /\ ret.slot = i) =>
                    ret.val = SpookyHash128_hash_with_seed(hist[i].written, hist[i].seed)

\* new(); write("hello"); write("world"); finish() has returned the value
\* test_spooky_hasher expects, and a seeded SpookyHasherExt has returned a
\* digest of "hello".
C1_Witness ==
    /\ ret.op = "finish" /\ Is(ret.slot, "SpookyHasher")
    /\ hist[ret.slot].ctor = "new" /\ hist[ret.slot].nwrites = 2
    /\ hist[ret.slot].written = HelloWorld
    /\ ret.val = <<65415, 57896, 59113, 47896>>
    /\ \E j \in Slots : Is(j, "SpookyHasherExt") /\ hist[j].seed = u128_new(U64(123))

\* What finish (and, on a SpookyHasherExt, finish_ext) would return from
\* hasher i in this state.
Digest(i) ==
    IF Is(i, "SpookyHasher")
    THEN Vals(SpookyHasher_finish(mem, hashers[i].ptr))
    ELSE Vals(SpookyHasherExt_finish_ext(mem, hashers[i].ptr))
           \cup Vals(SpookyHasherExt_finish(mem, hashers[i].ptr))

\* ------------------------------------------------------------------ C3
\* C3: a finish/finish_ext call leaves the native state as it was; called
\* again with no write in between it returns the same value; and a write
\* that follows a finish extends the digest over the bytes it adds.
C3_FinishNonDestructive ==
    [][ /\ ret'.op \in Finishes =>
              /\ mem' = mem
              /\ (ret'.again /\ ret.op = ret'.op) => ret'.val = ret.val
        /\ (ret'.op = "write" /\ ret.op \in Finishes /\ ret.slot = ret'.slot) =>
              LET i == ret'.slot
                  all == hist[i].written \o ret'.arg
              IN  /\ Is(i, "SpookyHasher") =>
                        Vals(SpookyHasher_finish(mem', hashers'[i].ptr)) =
                            {SpookyHash64_hash_with_seed(all, hist[i].seed)}
                  /\ Is(i, "SpookyHasherExt") =>
                        Vals(SpookyHasherExt_finish_ext(mem', hashers'[i].ptr)) =
                            {SpookyHash128_hash_with_seed(all, hist[i].seed)}
      ]_vars

\* A second finish in a row has returned, on a hasher that holds "hello".
C3_Witness ==
    /\ ret.op \in Finishes /\ ret.again
    /\ hist[ret.slot].written = Hello
    /\ mem[hashers[ret.slot].ptr].m_data = Hello

\* ------------------------------------------------------------------ C4
\* C4: the native state of a hasher is freed at most once, no native call
\* is made on a freed state, and the step that frees the state of a hasher
\* is the drop of that hasher, never a finish or a write.
C4_ReleasedOnceByDrop ==
    /\ [](\A p \in Addrs : mem[p].nfree <= 1 /\ ~mem[p].bad)
    /\ [][\A p \in Addrs :
              (mem[p].alloc /\ ~mem'[p].alloc) =>
                  (ret'.op = "drop" /\ hashers[ret'.slot].ptr = p)]_vars

\* One hasher that was written to and finished has been dropped while the
\* other is still live.
C4_Witness ==
    /\ ret.op = "drop"
    /\ \E p \in Addrs : ~mem[p].alloc /\ mem[p].nfree = 1
    /\ \E j \in Slots : Live(j) /\ hist[j].nwrites > 0

\* ------------------------------------------------------------------ C6
\* C6: on a SpookyHasherExt, finish_ext returns from_parts(hash1, hash2) of
\* the two words the native finalize call produced, and finish returns the
\* low 64 bits of what finish_ext returns in the same state.
C6_ExtExtraction ==
    \A i \in Slots :
        Is(i, "SpookyHasherExt") =>
            LET p == hashers[i].ptr
            IN  /\ \A f \in SpookyHasherFinal(mem, p) :
                       \E e \in SpookyHasherExt_finish_ext(mem, p) :
                           high64(e.val) = f.out[1] /\ low64(e.val) = f.out[2]
                /\ Vals(SpookyHasherExt_finish(mem, p)) =
                       {low64(v) : v \in Vals(SpookyHasherExt_finish_ext(mem, p))}
                /\ (ret.op = "finish" /\ ret.slot = i) =>
                       \E e \in SpookyHasherExt_finish_ext(mem, p) :
                           ret.val = low64(e.val)

\* finish on a SpookyHasherExt holding "hello" has returned the second
\* word of the digest test_spooky_hasher_ext expects.
C6_Witness ==
    /\ ret.op = "finish" /\ Is(ret.slot, "SpookyHasherExt")
    /\ hist[ret.slot].written = Hello
    /\ ret.val = <<58325, 19851, 50919, 62253>>

\* ------------------------------------------------------------------ C7
\* C7: the native state of a SpookyHasher built with seed s holds the seed
\* words (s, s), that of a SpookyHasherExt built with s128 holds
\* (high64(s128), low64(s128)); the argument of the constructor call that
\* just returned is the seed so stored.
C7_SeedPacking ==
    \A i \in Slots :
        /\ Is(i, "SpookyHasher") =>
              mem[hashers[i].ptr].m_state = <<hist[i].seed, hist[i].seed>>
        /\ Is(i, "SpookyHasherExt") =>
              mem[hashers[i].ptr].m_state =
                  <<high64(hist[i].seed), low64(hist[i].seed)>>
        /\ (ret.op = "with_seed" /\ ret.slot = i) => hist[i].seed = ret.arg

\* Both kinds have been built with seeds whose halves differ from zero and
\* from each other, and one with the seed 0.
C7_Witness ==
    /\ ret.op = "with_seed" /\ Is(ret.slot, "SpookyHasherExt")
    /\ ret.arg = from_parts(U64(123), U64(0))
    /\ mem[hashers[ret.slot].ptr].m_state = <<U64(123), U64(0)>>
    /\ \E j \in Slots :
          /\ Is(j, "SpookyHasher") /\ hist[j].ctor = "with_seed"
          /\ mem[hashers[j].ptr].m_state = <<U64(0), U64(0)>>

\* ------------------------------------------------------------------ C8
\* C8: a hasher built with new() and one of the same type built with
\* with_seed(0) that were written the same bytes return the same
\* finish/finish_ext values.
Zero(i) == IF Is(i, "SpookyHasher") THEN U64(0) ELSE u128_new(U64(0))

C8_DefaultSeedIsZero ==
    \A i, j \in Slots :
        ( /\ Live(i) /\ hashers[j].kind = hashers[i].kind
          /\ hist[i].ctor = "new"
          /\ hist[j].ctor = "with_seed" /\ hist[j].seed = Zero(j)
          /\ hist[i].written = hist[j].written )
        => Digest(i) = Digest(j)

\* A new() hasher and a with_seed(0) hasher both hold "hello" and finish
\* has just returned from one of them.
C8_Witness ==
    \E i, j \in Slots :
        /\ Is(i, "SpookyHasher") /\ Is(j, "SpookyHasher")
        /\ hist[i].ctor = "new"
        /\ hist[j].ctor = "with_seed" /\ hist[j].seed = U64(0)
        /\ hist[i].written = Hello /\ hist[j].written = Hello
        /\ ret.op = "finish" /\ ret.val = <<21692, 46508, 59620, 12224>>

\* ------------------------------------------------------------------ C9
\* C9: two live hashers never hold the same native handle, and a write to
\* or a drop of one hasher leaves what finish/finish_ext returns from every
\* other live hasher as it was.
C9_ExclusiveOwnership ==
    /\ [](\A i, j \in Slots :
              (i # j /\ Live(i) /\ Live(j)) => hashers[i].ptr # hashers[j].ptr)
    /\ [][ret'.op \in {"write", "drop"} =>
              \A j \in Slots \ {ret'.slot} : Live(j) => Digest(j)' = Digest(j)]_vars

\* A hasher was written "world" while the other live one holds "hello".
C9_Witness ==
    /\ ret.op = "write" /\ ret.arg = World
    /\ \E j \in Slots \ {ret.slot} :
          /\ Live(j) /\ hist[j].written = Hello
          /\ hashers[j].ptr # hashers[ret.slot].ptr

C2_BufferedEqualsOneShot ==
    /\ [](\A i \in Slots :
            /\ IsFarm(i, "FarmHasher64") =>
                  /\ FarmHasher64_finish(farm[i]) = FarmHash64_hash(hist[i].written)
                  /\ (ret.op = "finish" /\ ret.slot = i) =>
                        ret.val = FarmHash64_hash(hist[i].written)
                  /\ hist[i].written = Hello =>
                        FarmHasher64_finish(farm[i]) = <<51171, 56845, 1161, 17930>>
                  /\ hist[i].written = HelloWorld =>
                        FarmHasher64_finish(farm[i]) = <<3828, 58610, 44970, 3666>>
            /\ IsFarm(i, "FarmHasher128") =>
                  /\ FarmHasher128_finish_ext(farm[i]) =
                        FarmHash128_hash(hist[i].written)
                  /\ (ret.op = "finish_ext" /\ ret.slot = i) =>
                        ret.val = FarmHash128_hash(hist[i].written)
                  /\ hist[i].written = HelloWorld =>
                        FarmHasher128_finish_ext(farm[i]) =
                            from_parts(<<57080, 15606, 35511, 55158>>,
                                       <<3977, 6872, 35730, 18497>>))
    /\ [][ret'.op \in Finishes => farm' = farm]_vars

\* new(); write("hello"); finish(); write("world"); finish() on a
\* FarmHasher64: the second finish in a row has returned the hash of
\* "helloworld".
C2_Witness ==
    /\ ret.op = "finish" /\ IsFarm(ret.slot, "FarmHasher64")
    /\ hist[ret.slot].nwrites = 2 /\ farm[ret.slot].bytes = HelloWorld
    /\ ret.val = <<3828, 58610, 44970, 3666>>
    /\ ret.again

\* ------------------------------------------------------------------ C5
\* The inputs on which the tests of the crate fix both the 64-bit and the
\* 128-bit value of an algorithm.
FixedHash == {Hello, HelloWorld}
FixedFingerprint == {HelloWord}

\* C5 as stated: the low 64 bits of the 128-bit value of b are the 64-bit
\* value of b, for Spooky hash, Farm hash and Farm fingerprint (read on
\* the inputs whose values the tests fix).
C5_LowHalfIs64 ==
    /\ (pure.fn = "SpookyHash128::hash" /\ pure.bytes \in FixedHash) =>
          low64(pure.val) = SpookyHash64_hash(pure.bytes)
    /\ (pure.fn = "FarmHash128::hash" /\ pure.bytes \in FixedHash) =>
          low64(pure.val) = FarmHash64_hash(pure.bytes)
    /\ (pure.fn = "fingerprint128" /\ pure.bytes \in FixedFingerprint) =>
          low64(pure.val) = fingerprint64(pure.bytes)

\* C5 (amended): for Spooky hash with the default seed the HIGH 64 bits of
\* the 128-bit value of b are the 64-bit value of b, for every input b; for
\* Farm hash and Farm fingerprint neither half of the 128-bit value is the
\* 64-bit value on the inputs whose values the tests fix.
C5_HighHalfIs64 ==
    /\ pure.fn = "SpookyHash128::hash" =>
          high64(pure.val) = SpookyHash64_hash(pure.bytes)
    /\ (pure.fn = "FarmHash128::hash" /\ pure.bytes \in FixedHash) =>
          /\ low64(pure.val) # FarmHash64_hash(pure.bytes)
          /\ high64(pure.val) # FarmHash64_hash(pure.bytes)
    /\ (pure.fn = "fingerprint128" /\ pure.bytes \in FixedFingerprint) =>
          /\ low64(pure.val) # fingerprint64(pure.bytes)
          /\ high64(pure.val) # fingerprint64(pure.bytes)

\* SpookyHash128::hash("hello") has returned the value test_spooky128
\* expects, whose high half is the value test_spooky64 expects.
C5_Witness ==
    /\ pure.fn = "SpookyHash128::hash" /\ pure.bytes = Hello
    /\ pure.val = from_parts(<<21692, 46508, 59620, 12224>>,
                             <<58325, 19851, 50919, 62253>>)
    /\ SpookyHash64_hash(Hello) = <<21692, 46508, 59620, 12224>>

\* ----------------------------------------------------------------- C11
\* The one-shot hash a hasher built like hasher i returns for bytes.
OneShot(i, bytes) ==
    IF Is(i, "SpookyHasher")
    THEN SpookyHash64_hash_with_seed(bytes, hist[i].seed)
    ELSE SpookyHash128_hash_with_seed(bytes, hist[i].seed)

\* The memory after hasher i is written bytes.
AfterWrite(i, bytes) ==
    IF Is(i, "SpookyHasher")
    THEN SpookyHasher_write(mem, hashers[i].ptr, bytes)
    ELSE SpookyHasherExt_write(mem, hashers[i].ptr, bytes)

\* What finish (finish_ext on a SpookyHasherExt) returns from hasher i when
\* the native memory is m.
FinishIn(m, i) ==
    IF Is(i, "SpookyHasher")
    THEN Vals(SpookyHasher_finish(m, hashers[i].ptr))
    ELSE Vals(SpookyHasherExt_finish_ext(m, hashers[i].ptr))

\* C11: a live hasher has an allocated, initialised native state that no
\* call found invalid; finish on it has exactly one outcome, a value; a
\* write of any byte slice, the empty one included, is accepted and gives
\* the digest of the bytes so far followed by the slice, so a write of
\* zero bytes leaves the digest as it was; and finish on a hasher that was
\* never written to returns the one-shot hash of the empty sequence under
\* the seed it was built with.
C11_NoFailurePath ==
    \A i \in Slots :
        Live(i) =>
            LET p == hashers[i].ptr
            IN  /\ mem[p].alloc /\ mem[p].init /\ ~mem[p].bad
                /\ Cardinality(FinishIn(mem, i)) = 1
                /\ \A bytes \in Chunks :
                       LET m2 == AfterWrite(i, bytes)
                       IN  /\ m2[p].alloc /\ ~m2[p].bad
                           /\ FinishIn(m2, i) = {OneShot(i, hist[i].written \o bytes)}
                /\ FinishIn(AfterWrite(i, <<>>), i) = FinishIn(mem, i)
                /\ hist[i].nwrites = 0 => FinishIn(mem, i) = {OneShot(i, <<>>)}
                /\ (ret.op = "write" /\ ret.slot = i /\ ret.arg = <<>>) =>
                       FinishIn(mem, i) = {OneShot(i, hist[i].written)}

\* A zero-byte write was made to a seeded hasher that holds "hello", while
\* the other hasher was built and never written to.
C11_Witness ==
    /\ ret.op = "write" /\ ret.arg = <<>>
    /\ hist[ret.slot].written = Hello /\ hist[ret.slot].nwrites = 2
    /\ hist[ret.slot].ctor = "with_seed"
    /\ \E j \in Slots \ {ret.slot} : Live(j) /\ hist[j].nwrites = 0

\* ----------------------------------------------------------------- C12
\* The value fn::hash_with_seed(bytes, seed) has as a function of its
\* arguments alone.
ValueOf(fn, bytes, seed) ==
    CASE fn = "SpookyHash32" -> SpookyHash32_hash_with_seed(bytes, seed)
      [] fn = "SpookyHash64" -> SpookyHash64_hash_with_seed(bytes, seed)
      [] fn = "SpookyHash128" -> SpookyHash128_hash_with_seed(bytes, seed)

InCall(t) == calls[t].pc \in {"seeded", "hashed"}

\* C12: whatever the other thread and the owner of a live hasher do in
\* between its statements, a one-shot call returns the value its bytes and
\* seed determine; a step of one call leaves the locals of the other call
\* and the native state of every hasher as they were, and a write, finish
\* or drop on a hasher leaves the locals of every call as they were.
C12_OneShotStateless ==
    [][/\ \A t \in Threads :
             calls'[t].pc = "done" =>
                 calls'[t].val = ValueOf(calls'[t].fn, calls'[t].bytes,
                                         calls'[t].seed)
       /\ \A t \in Threads : \A u \in Threads \ {t} :
             (calls'[t] # calls[t] /\ InCall(u)) => stack'[u] = stack[u]
       /\ calls' # calls => UNCHANGED <<mem, hashers, hist>>
       /\ mem' # mem => UNCHANGED <<calls, stack>>]_vars

\* One call has returned the SpookyHash64 value of "hello" under seed 123
\* while the other call, with another seed, is between its native call and
\* its return, and a live hasher holding "hello" has just been finished.
C12_Witness ==
    /\ calls["t1"].pc = "done" /\ calls["t1"].fn = "SpookyHash64"
    /\ calls["t1"].bytes = Hello /\ calls["t1"].seed = U64(123)
    /\ calls["t1"].val = SpookyHash64_hash_with_seed(Hello, U64(123))
    /\ calls["t2"].pc = "hashed" /\ calls["t2"].fn = "SpookyHash128"
    /\ calls["t2"].seed # u128_new(U64(123))
    /\ Is("a", "SpookyHasher") /\ hist["a"].written = Hello
    /\ ret.op = "finish"

\* ----------------------------------------------------------------- C13
FingerprintFns == {"fingerprint32", "fingerprint64", "fingerprint128"}

\* C13: a Farm fingerprint call takes the bytes and no seed and returns
\* what the native fingerprint function of its width returns for them (for
\* "hello word" the value test_fingerprint expects); a Farm hash call
\* returns what the native hash function of its width returns (for "hello"
\* the value test_farmhash64 expects), the seeded form what the native
\* seeded hash function returns; no call goes through the other family.
C13_FingerprintSeparate ==
    /\ pure.fn \in FingerprintFns => pure.seed = <<>>
    /\ pure.fn = "fingerprint32" =>
          pure.val = farmhash_fingerprint32(pure.bytes)
    /\ pure.fn = "fingerprint64" =>
          /\ pure.val = farmhash_fingerprint64(pure.bytes)
          /\ pure.bytes = HelloWord =>
                pure.val = <<10170, 42861, 41332, 33262>>
    /\ pure.fn = "fingerprint128" =>
          /\ low64(pure.val) = farmhash_fingerprint128(pure.bytes).a
          /\ high64(pure.val) = farmhash_fingerprint128(pure.bytes).b
    /\ pure.fn = "FarmHash32::hash" => pure.val = farmhash32(pure.bytes)
    /\ pure.fn = "FarmHash64::hash" =>
          /\ pure.val = farmhash64(pure.bytes)
          /\ pure.bytes = Hello => pure.val = <<51171, 56845, 1161, 17930>>
    /\ pure.fn = "FarmHash128::hash" =>
          /\ low64(pure.val) = farmhash128(pure.bytes).a
          /\ high64(pure.val) = farmhash128(pure.bytes).b
    /\ pure.fn = "FarmHash32::hash_with_seed" =>
          pure.val = farmhash32_with_seed(pure.bytes, pure.seed)
    /\ pure.fn = "FarmHash64::hash_with_seed" =>
          pure.val = farmhash64_with_seed(pure.bytes, pure.seed)

\* fingerprint64 was called on "hello word", with no seed, and returned
\* the value test_fingerprint expects.
C13_Witness ==
    /\ pure.fn = "fingerprint64" /\ pure.bytes = HelloWord
    /\ pure.seed = <<>>
    /\ pure.val = <<10170, 42861, 41332, 33262>>

\* ----------------------------------------------------------------- C14
\* The seed pair the constructor of hasher i hands to the native Init.
SeedPair(i) ==
    IF Is(i, "SpookyHasher") THEN <<hist[i].seed, hist[i].seed>>
    ELSE <<high64(hist[i].seed), low64(hist[i].seed)>>

\* C14: every native object in use was allocated and then initialised
\* exactly once, with the seed pair of its hasher, and no Update or Final
\* reached it before that; no native call reached memory that was not yet
\* allocated or already freed; a write or finish leaves the number of Init
\* calls and the stored seed pair as they were and frees nothing; a drop
\* frees the object, once, as the last call on it.
C14_LifecycleOrder ==
    [][/\ \A p \in Addrs :
             /\ ~mem'[p].bad /\ ~mem'[p].early /\ mem'[p].nfree <= 1
             /\ mem'[p].alloc => mem'[p].init /\ mem'[p].ninit = 1
       /\ \A i \in Slots :
             hashers'[i].kind # "none" =>
                 LET p == hashers'[i].ptr
                 IN  /\ mem'[p].alloc
                     /\ mem'[p].m_state = SeedPair(i)'
       /\ ret'.op \in {"new", "with_seed"} =>
             LET p == hashers'[ret'.slot].ptr
             IN  /\ ~mem[p].alloc /\ mem[p].ninit = 0
                 /\ mem'[p].m_length = 0
       /\ ret'.op \in Finishes \cup {"write"} =>
             \A p \in Addrs :
                 /\ mem'[p].alloc = mem[p].alloc
                 /\ mem'[p].ninit = mem[p].ninit
                 /\ mem'[p].m_state = mem[p].m_state
                 /\ mem'[p].nfree = mem[p].nfree
       /\ ret'.op = "drop" =>
             LET p == hashers[ret'.slot].ptr
             IN  /\ mem[p].alloc /\ mem[p].ninit = 1
                 /\ ~mem'[p].alloc /\ mem'[p].nfree = 1]_vars

\* One hasher has just been dropped and its native object freed, once,
\* while the other, built with a seed, has taken two writes on a native
\* object that was initialised once.
C14_Witness ==
    /\ ret.op = "drop"
    /\ \E p \in Addrs : ~mem[p].alloc /\ mem[p].nfree = 1
    /\ \E j \in Slots :
          /\ Live(j) /\ hist[j].ctor = "with_seed" /\ hist[j].nwrites = 2
          /\ mem[hashers[j].ptr].ninit = 1

\* ----------------------------------------------------------------- C15
\* C15: finish on a FarmHasher32 built with new() returns a 64-bit value
\* whose upper 32 bits are 0 and whose lower 32 bits are FarmHash32::hash
\* of all bytes written since construction.
C15_Widening32 ==
    \A i \in Slots :
        IsFarm(i, "FarmHasher32") =>
            LET v == FarmHasher32_finish(farm[i])
            IN  /\ Len(v) = 4
                /\ SubSeq(v, 1, 2) = <<0, 0>>
                /\ SubSeq(v, 3, 4) = FarmHash32_hash(hist[i].written)
                /\ (ret.op = "finish" /\ ret.slot = i) => ret.val = v

\* new(); write("hello"); write("world"); finish() on a FarmHasher32 has
\* returned the 32-bit hash of "helloworld" under an upper half of zero.
C15_Witness ==
    /\ ret.op = "finish" /\ IsFarm(ret.slot, "FarmHasher32")
    /\ hist[ret.slot].nwrites = 2 /\ farm[ret.slot].bytes = HelloWorld
    /\ ret.val = <<0, 0>> \o FarmHash32_hash(HelloWorld)

\* ----------------------------------------------------------------- C16
DefaultSeeded(i) ==
    \/ Is(i, "SpookyHasher") /\ hist[i].seed = DefaultSeed64
    \/ Is(i, "SpookyHasherExt") /\ hist[i].seed = DefaultSeed128

\* C16: when a SpookyHasher and a SpookyHasherExt, both with the default
\* seed, have been written the same bytes, finish() on the first returns
\* the high 64 bits of what finish_ext() on the second returns (for "hello"
\* the value test_spooky64 expects and the first part of the value
\* test_spooky128 expects); and SpookyHash64::hash(b) is the high half of
\* SpookyHash128::hash(b) for every input b.
C16_FinishIsHighHalf ==
    /\ \A i \in Slots : \A j \in Slots \ {i} :
          ( /\ Is(i, "SpookyHasher") /\ Is(j, "SpookyHasherExt")
            /\ DefaultSeeded(i) /\ DefaultSeeded(j)
            /\ hist[i].written = hist[j].written ) =>
              /\ Vals(SpookyHasher_finish(mem, hashers[i].ptr)) =
                    {high64(v) :
                        v \in Vals(SpookyHasherExt_finish_ext(mem, hashers[j].ptr))}
              /\ (ret.op = "finish" /\ ret.slot = i) =>
                    \E v \in Vals(SpookyHasherExt_finish_ext(mem, hashers[j].ptr)) :
                        ret.val = high64(v)
              /\ hist[i].written = Hello =>
                    Vals(SpookyHasher_finish(mem, hashers[i].ptr)) =
                        {<<21692, 46508, 59620, 12224>>}
    /\ \A b \in Inputs :
          SpookyHash64_hash(b) = high64(SpookyHash128_hash(b))

\* A SpookyHasher and a SpookyHasherExt, both built with new(), each hold
\* "hello", and finish() on the SpookyHasher has just returned the value
\* test_spooky64 expects.
C16_Witness ==
    /\ ret.op = "finish" /\ Is(ret.slot, "SpookyHasher")
    /\ ret.val = <<21692, 46508, 59620, 12224>>
    /\ \A i \in Slots :
          Live(i) /\ hist[i].ctor = "new" /\ hist[i].written = Hello
    /\ \E j \in Slots : Is(j, "SpookyHasherExt")

\* ----------------------------------------------------------------- C17
\* The u64 x modulo 2^32, as a u32.
Mod2_32(x) == <<x[3], x[4]>>

\* The u32 s as the u64 of the same value.
ZeroExtend(s) == <<0, 0, s[1], s[2]>>

\* C17: SpookyHash32::hash_with_seed(b, s) is SpookyHash64::hash_with_seed
\* of b under s zero-extended to 64 bits, modulo 2^32 (for "hello" under
\* seed 123 the value test_spooky32 expects), and SpookyHash32::hash(b) is
\* SpookyHash64::hash(b) modulo 2^32.
C17_Hash32IsLow32Of64 ==
    /\ pure.fn = "SpookyHash32::hash_with_seed" =>
          /\ pure.val =
                Mod2_32(SpookyHash64_hash_with_seed(pure.bytes,
                                                    ZeroExtend(pure.seed)))
          /\ (pure.bytes = Hello /\ pure.seed = U32(123)) =>
                pure.val = <<33749, 61508>>
    /\ pure.fn = "SpookyHash32::hash" =>
          pure.val = Mod2_32(SpookyHash64_hash(pure.bytes))

\* SpookyHash32::hash_with_seed("hello", 123) has returned the value
\* test_spooky32 expects, the low 32 bits of the value test_spooky64
\* expects for the same call of SpookyHash64.
C17_Witness ==
    /\ pure.fn = "SpookyHash32::hash_with_seed"
    /\ pure.bytes = Hello /\ pure.seed = U32(123)
    /\ pure.val = <<33749, 61508>>
    /\ SpookyHash64_hash_with_seed(Hello, U64(123)) =
          <<31331, 45252, 33749, 61508>>

====
